---- MODULE Spec2Model ----
(***************************************************************************)
(* A model of cgrep (src/cgrep.py, the 2017 Python 2 tool, and             *)
(* src/cgrep5.py, its 2020 rewrite): the single file scanner grep_file,    *)
(* the record printers, the directory walkers do_grep / do_glob, the skip  *)
(* policy and the ctags lookup do_ctags.                                   *)
(*                                                                         *)
(* Text is a sequence of one-character strings.  Offsets into text are     *)
(* Python's: 0-based, slices half open, negative offsets from the end.     *)
(***************************************************************************)
EXTENDS Integers, Sequences, FiniteSets, TLC

VARIABLES
  impl,         \* which program runs: "cgrep" (cgrep.py) or "cgrep5" (cgrep5.py)
  pc,           \* position of the running program
  filedata,     \* scanner: the content of the file handed to grep_file
  textpat,      \* scanner: the source text of the compiled search pattern
  arg_context,  \* _arg_context / _show_context
  good_lines,   \* scanner: the list grep_file returned
  out,          \* what was printed, in order
  arg_no_skip,      \* cgrep.py: _arg_no_skip (-S)
  extra_skip,       \* the -x tokens not yet taken in at start-up
  extra_skip_dir,   \* cgrep.py: _extra_skip_dir
  extra_skip_ext,   \* cgrep.py: _extra_skip_ext
  extra_skip_re,    \* cgrep.py: _extra_skip_re, each regex as its source text
  skip_mode,        \* cgrep5.py: _skip_mode
  dirs_to_skip,     \* cgrep5.py: _dirs_to_skip
  files_to_skip,    \* cgrep5.py: _files_to_skip
  skip_idx,         \* cgrep.py: position of the start-up loop in extra_skip
  decision,         \* the last skip decision asked for
  listing,          \* walker: the subdirectory names os.walk lists, in listing order
  dirfiles,         \* walker: the file names os.walk lists, in listing order
  run_mode,         \* _search_kind / _run_mode: "grep" or "glob"
  arg_dirsonly,     \* cgrep.py: _arg_dirsonly (-d)
  unreadable,       \* walker: the file names that cannot be opened
  pending,          \* walker: the directories os.walk has still to yield, next first
  visited,          \* walker: the directories yielded so far
  scanned,          \* walker: the files handed to grep_file or reported by name
  tagfile,          \* tag mode: the lines of the tag file
  tag_idx,          \* tag mode: position of do_ctags' loop in the tag file
  found_lines,      \* tag mode: do_ctags' dict, key -> record
  missing,          \* tag mode: the source files that cannot be opened
  probes            \* tag mode: the grep_file calls made so far (file, pattern)

scanvars == <<filedata, textpat, arg_context, good_lines>>
skipvars == <<arg_no_skip, extra_skip, extra_skip_dir,
              extra_skip_ext, extra_skip_re, skip_mode, dirs_to_skip, files_to_skip,
              skip_idx, decision>>
walkvars == <<listing, dirfiles, run_mode, arg_dirsonly, unreadable, pending,
              visited, scanned>>
tagvars == <<tagfile, tag_idx, found_lines, missing, probes>>
vars == <<impl, pc, out, scanvars, skipvars, walkvars, tagvars>>

Range(f) == {f[x] : x \in DOMAIN f}

\* The parts of the state a run outside tag mode leaves alone.
TagIdle ==
  /\ tagfile = <<>> /\ tag_idx = 1 /\ found_lines = <<>> /\ missing = {}
  /\ probes = <<>>

\* Every text over alphabet of at most n characters.
RECURSIVE TextsUpTo(_, _)
TextsUpTo(alphabet, n) ==
  IF n = 0 THEN {<<>>}
  ELSE LET shorter == TextsUpTo(alphabet, n - 1)
       IN  shorter \cup {Append(t, ch) : t \in shorter, ch \in alphabet}

\* The parts of the state a run that does not scan a single file leaves alone.
ScanIdle ==
  /\ filedata = <<>> /\ textpat = <<>> /\ arg_context = FALSE /\ good_lines = <<>>

\* The parts of the state a run that walks no directory leaves alone.
WalkIdle ==
  /\ listing = <<>> /\ dirfiles = <<>> /\ run_mode = "grep" /\ arg_dirsonly = FALSE
  /\ unreadable = {} /\ pending = <<>> /\ visited = <<>> /\ scanned = <<>>

Impls == {"cgrep", "cgrep5"}

\* _max_line_part = 40 in both programs
max_line_part == 40

NL == "\n"

(***************************************************************************)
(* Python sequence primitives                                              *)
(***************************************************************************)
Min(a, b) == IF a < b THEN a ELSE b
Max(a, b) == IF a > b THEN a ELSE b

\* One slice bound: negative counts from the end, then clamped to 0..len.
PyIndex(i, len) == IF i < 0 THEN Max(i + len, 0) ELSE Min(i, len)

\* s[i:j]
PySlice(s, i, j) ==
  LET lo == PyIndex(i, Len(s))
      hi == PyIndex(j, Len(s))
  IN  IF lo >= hi THEN <<>> ELSE SubSeq(s, lo + 1, hi)

\* s[i:]
PyFrom(s, i) == PySlice(s, i, Len(s))

\* c * n
Rep(c, n) == [k \in 1..n |-> c]

\* s.startswith(p), s.endswith(p)
StartsWith(s, p) == Len(s) >= Len(p) /\ SubSeq(s, 1, Len(p)) = p
EndsWith(s, p) == Len(s) >= Len(p) /\ SubSeq(s, Len(s) - Len(p) + 1, Len(s)) = p

\* s.find(p) != -1
Contains(s, p) ==
  \E k \in 0..(Len(s) - Len(p)) : SubSeq(s, k + 1, k + Len(p)) = p

\* The lines a Python file iterator yields for `data`: each ends with its
\* newline, except a last line that has none.
RECURSIVE LinesFrom(_, _)
LinesFrom(data, i) ==
  IF i > Len(data) THEN <<>>
  ELSE LET nls == {j \in i..Len(data) : data[j] = NL}
           e == IF nls = {} THEN Len(data)
                ELSE CHOOSE j \in nls : \A q \in nls : j <= q
       IN  <<SubSeq(data, i, e)>> \o LinesFrom(data, e + 1)

Lines(data) == LinesFrom(data, 1)

(***************************************************************************)
(* The regular expressions the model uses (Python's re): literal           *)
(* characters, '.', '^', '$', a backslash escape of the next character,    *)
(* and groups '(' ... ')' without alternation or repetition.  A pattern    *)
(* compiles to a list of atoms, or fails to compile.                       *)
(***************************************************************************)
BadRe == [ok |-> FALSE, atoms |-> <<>>]

RECURSIVE ReParse(_, _, _, _)
ReParse(src, i, depth, acc) ==
  IF i > Len(src)
  THEN IF depth = 0 THEN [ok |-> TRUE, atoms |-> acc] ELSE BadRe
  ELSE LET ch == src[i] IN
       CASE ch = "\\" ->
              IF i = Len(src) THEN BadRe
              ELSE ReParse(src, i + 2, depth,
                           Append(acc, [k |-> "lit", c |-> src[i + 1]]))
         [] ch = "(" -> ReParse(src, i + 1, depth + 1, acc)
         [] ch = ")" -> IF depth = 0 THEN BadRe
                        ELSE ReParse(src, i + 1, depth - 1, acc)
         [] ch = "." -> ReParse(src, i + 1, depth, Append(acc, [k |-> "any", c |-> ""]))
         [] ch = "^" -> ReParse(src, i + 1, depth, Append(acc, [k |-> "bol", c |-> ""]))
         [] ch = "$" -> ReParse(src, i + 1, depth, Append(acc, [k |-> "eol", c |-> ""]))
         [] OTHER    -> ReParse(src, i + 1, depth, Append(acc, [k |-> "lit", c |-> ch]))

\* re.compile(src)
ReCompile(src) == ReParse(src, 1, 0, <<>>)

\* '$' without re.MULTILINE: at the end, or before a newline that ends the text.
AtEol(s, p) == p = Len(s) \/ (p = Len(s) - 1 /\ s[Len(s)] = NL)

\* The offset where atoms[i..] end when matched at offset p of s, or -1.
RECURSIVE ReMatchAt(_, _, _, _)
ReMatchAt(atoms, i, s, p) ==
  IF i > Len(atoms) THEN p
  ELSE LET at == atoms[i] IN
       CASE at.k = "bol" -> IF p = 0 THEN ReMatchAt(atoms, i + 1, s, p) ELSE -1
         [] at.k = "eol" -> IF AtEol(s, p) THEN ReMatchAt(atoms, i + 1, s, p) ELSE -1
         [] at.k = "any" -> IF p < Len(s) /\ s[p + 1] # NL
                            THEN ReMatchAt(atoms, i + 1, s, p + 1) ELSE -1
         [] OTHER        -> IF p < Len(s) /\ s[p + 1] = at.c
                            THEN ReMatchAt(atoms, i + 1, s, p + 1) ELSE -1

NoMatch == [found |-> FALSE, start |-> 0, end |-> 0]

\* pattern.search(s): the leftmost match.
ReSearch(re, s) ==
  LET hits == {p \in 0..Len(s) : ReMatchAt(re.atoms, 1, s, p) >= 0}
  IN  IF hits = {} THEN NoMatch
      ELSE LET p0 == CHOOSE p \in hits : \A q \in hits : p <= q
           IN  [found |-> TRUE, start |-> p0, end |-> ReMatchAt(re.atoms, 1, s, p0)]

\* pattern.match(s): a match at offset 0.
ReMatch(re, s) == ReMatchAt(re.atoms, 1, s, 0) >= 0

(***************************************************************************)
(* grep_file                                                               *)
(***************************************************************************)
Ellipsis == <<".", ".", ".">>

\* a = "..." + a[len(a) - _max_line_part:]
TruncPrefix(a) ==
  IF Len(a) > max_line_part
  THEN Ellipsis \o PyFrom(a, Len(a) - max_line_part)
  ELSE a

\* c = c[:_max_line_part] + "..."
TruncSuffix(c) ==
  IF Len(c) > max_line_part
  THEN PySlice(c, 0, max_line_part) \o Ellipsis
  ELSE c

\* (a, b, c) of a match m in line ln, as grep_file first cuts them.
MatchParts(ln, m) ==
  <<PySlice(ln, 0, m.start), PySlice(ln, m.start, m.end), PySlice(ln, m.end, -1)>>

\* The record grep_file stores for a match: cgrep.py truncates here.
MatchRecord(im, n, ln, m) ==
  LET p == MatchParts(ln, m) IN
  IF im = "cgrep" THEN <<n, TruncPrefix(p[1]), p[2], TruncSuffix(p[3])>>
  ELSE <<n, p[1], p[2], p[3]>>

\* The remembered previous line: cgrep.py strips its last character.
PrevRecord(im, n, ln) ==
  IF im = "cgrep" THEN <<n, PySlice(ln, 0, -1), <<>>, <<>>>> ELSE <<n, ln, <<>>, <<>>>>

\* A scanner that takes the following line off the iterator on every match.
TakesNextAlways(ctx) == TRUE

\* next(fd, ''): whether the scan of a matching line takes the next line
\* off the file iterator.
TakesNext(ctx) == ctx

\* The records appended for a match on iterator position i (line text ln,
\* line_count n, remembered previous record kp).
Appended(im, ctx, n, ln, m, kp, following) ==
  LET rec == MatchRecord(im, n, ln, m)
      after == <<n + 1, following, <<>>, <<>>>>
  IN  IF ~ctx THEN <<rec>>
      ELSE IF im = "cgrep" THEN <<kp, rec, after>>
      ELSE IF n > 1 THEN <<kp, rec, after>>
      ELSE <<rec, after>>

\* The loop of grep_file from iterator position i on.
RECURSIVE GrepFrom(_, _, _, _, _, _, _, _)
GrepFrom(im, lines, re, ctx, i, line_count, kp, good) ==
  IF i > Len(lines) THEN good
  ELSE LET ln == lines[i]
           n == line_count + 1
           m == ReSearch(re, ln)
           following == IF i < Len(lines) THEN lines[i + 1] ELSE <<>>
       IN  IF m.found
           THEN GrepFrom(im, lines, re, ctx,
                         IF TakesNext(ctx) THEN i + 2 ELSE i + 1,
                         n, PrevRecord(im, n, ln),
                         good \o Appended(im, ctx, n, ln, m, kp, following))
           ELSE GrepFrom(im, lines, re, ctx, i + 1, n, PrevRecord(im, n, ln), good)

\* grep_file(filename, pattern) on a file whose content is data.
grep_file(im, data, re, ctx) ==
  GrepFrom(im, Lines(data), re, ctx, 1, 0, <<0, <<>>, <<>>, <<>>>>, <<>>)

(***************************************************************************)
(* Printing: what print_good_line (cgrep.py) and print_good_lines          *)
(* (cgrep5.py) write for one record: the line number, then the text        *)
(* written in the default colour, in green, and in the default colour.     *)
(***************************************************************************)
\* One printed item: a result line, a file header ("file"), a diagnostic
\* ("diag": the message, with the traceback report_exception of cgrep5.py
\* prints after it) or a skip warning ("skip"), each naming its path in fn.
Printed(kind, fn, n, a, b, c) ==
  [kind |-> kind, fn |-> fn, n |-> n, a |-> a, b |-> b, c |-> c]

Header(fn) == Printed("file", fn, 0, <<>>, <<>>, <<>>)
Diag(fn) == Printed("diag", fn, 0, <<>>, <<>>, <<>>)

print_good_line(im, rec) ==
  LET n == rec[1]  a == rec[2]  b == rec[3]  c == rec[4] IN
  IF b # <<>> \/ c # <<>>
  THEN IF im = "cgrep5"
       THEN Printed("line", <<>>, n, TruncPrefix(a), b, TruncSuffix(c))
       ELSE Printed("line", <<>>, n, a, b, c)
  ELSE Printed("line", <<>>, n, a, <<>>, <<>>)

\* The header and the lines both programs print for one scanned file.
print_good_lines(im, fn, recs) ==
  IF recs = <<>> THEN <<>>
  ELSE <<Header(fn)>> \o [k \in 1..Len(recs) |-> print_good_line(im, recs[k])]

(***************************************************************************)
(* The skip policy.  cgrep.py keeps _skip_dir and _skip_ext and sorts the  *)
(* -x tokens into _extra_skip_dir, _extra_skip_ext and _extra_skip_re at   *)
(* start-up; cgrep5.py keeps _dirs_to_skip and the glob list              *)
(* _files_to_skip, to which it appends the -x tokens.                      *)
(***************************************************************************)
\* _skip_dir: no skip file exists that would replace it
skip_dir ==
  <<<<".", "h", "g">>,
    <<".", "g", "i", "t">>,
    <<".", "s", "v", "n">>,
    <<"C", "V", "S">>,
    <<"R", "C", "S">>,
    <<"S", "C", "C", "S">>>>

\* _skip_ext: no skip file exists that would replace it
skip_ext ==
  <<<<".", "b", "i", "n">>,
    <<".", "o">>,
    <<".", "o", "b", "j">>,
    <<".", "c", "l", "a", "s", "s">>,
    <<".", "s", "o">>,
    <<".", "d", "y", "n", "l", "i", "b">>,
    <<".", "d", "l", "l">>,
    <<".", "z", "i", "p">>,
    <<".", "j", "a", "r">>,
    <<".", "g", "z">>,
    <<".", "g", "c", "h">>,
    <<".", "p", "c", "h">>,
    <<".", "p", "d", "b">>,
    <<".", "s", "w", "p">>,
    <<".", "j", "p", "g">>,
    <<".", "t", "t", "f">>>>

\* _dirs_to_skip as cgrep5.py defines it
default_dirs_to_skip == skip_dir

\* _files_to_skip as cgrep5.py defines it
default_files_to_skip ==
  <<<<"*", ".", "e", "x", "e">>,
    <<"*", ".", "b", "i", "n">>,
    <<"*", ".", "s", "o">>,
    <<"*", ".", "d", "y", "n", "l", "i", "b">>,
    <<"*", ".", "d", "l", "l">>,
    <<"*", ".", "a">>,
    <<"*", ".", "o">>,
    <<"*", ".", "o", "b", "j">>,
    <<"*", ".", "c", "l", "a", "s", "s">>,
    <<"*", ".", "z", "i", "p">>,
    <<"*", ".", "j", "a", "r">>,
    <<"*", ".", "g", "z">>,
    <<"*", ".", "g", "c", "h">>,
    <<"*", ".", "p", "c", "h">>,
    <<"*", ".", "p", "d", "b">>,
    <<"*", ".", "s", "w", "p">>,
    <<"*", ".", "i", "c", "u">>,
    <<"*", ".", "j", "p", "g">>,
    <<"*", ".", "t", "t", "f">>,
    <<"*", ".", "g", "i", "f">>,
    <<"*", "p", "n", "g">>,
    <<"*", ".", "t", "i", "f", "f">>,
    <<"*", ".", "i", "c", "o">>>>

\* x in list
InList(x, list) == \E k \in 1..Len(list) : list[k] = x

\* fnmatch.fnmatch(name, glob) for globs of literal characters and '*'.
RECURSIVE FnMatch(_, _)
FnMatch(name, glob) ==
  IF glob = <<>> THEN name = <<>>
  ELSE IF Head(glob) = "*"
       THEN \E k \in 0..Len(name) : FnMatch(PyFrom(name, k), Tail(glob))
       ELSE name # <<>> /\ Head(name) = Head(glob) /\ FnMatch(Tail(name), Tail(glob))

\* re.compile(fnmatch.translate(glob)).search(name): the translated glob is
\* anchored at the end only.
GlobSearch(name, glob) == \E k \in 0..Len(name) : FnMatch(PyFrom(name, k), glob)

\* os.path.splitext(name)[1] for a name without directory part: the text from
\* the last dot on, unless only dots precede that dot.
SplitExt(name) ==
  LET dots == {k \in 1..Len(name) : name[k] = "."} IN
  IF dots = {} THEN <<>>
  ELSE LET d == CHOOSE k \in dots : \A q \in dots : q <= k
       IN  IF \E k \in 1..(d - 1) : name[k] # "." THEN SubSeq(name, d, Len(name))
           ELSE <<>>

None == <<"None">>

\* The first element of list that satisfies the test, as <<TRUE, element>>.
FirstContained(name, list) ==
  LET hit == {k \in 1..Len(list) : Contains(name, list[k])} IN
  IF hit = {} THEN <<FALSE, None>>
  ELSE <<TRUE, list[CHOOSE k \in hit : \A q \in hit : k <= q]>>

FirstReMatch(name, list) ==
  LET hit == {k \in 1..Len(list) : ReMatch(ReCompile(list[k]), name)} IN
  IF hit = {} THEN <<FALSE, None>>
  ELSE <<TRUE, list[CHOOSE k \in hit : \A q \in hit : k <= q]>>

\* should_skip_dir(dirname) of cgrep.py: (flag, the token to warn about)
should_skip_dir(dirname) ==
  IF arg_no_skip THEN <<FALSE, None>>
  ELSE IF InList(dirname, skip_dir) THEN <<TRUE, None>>
  ELSE IF FirstContained(dirname, extra_skip_dir)[1] THEN FirstContained(dirname, extra_skip_dir)
  ELSE FirstReMatch(dirname, extra_skip_re)

\* should_skip_file(filename) of cgrep.py (no output file is in use)
should_skip_file(filename) ==
  IF arg_no_skip THEN FALSE
  ELSE \/ InList(SplitExt(filename), skip_ext)
       \/ InList(SplitExt(filename), extra_skip_ext)

\* SelectSeq with the test written out
RECURSIVE Keep(_, _)
Keep(list, wanted) ==
  IF list = <<>> THEN <<>>
  ELSE IF Head(list) \in wanted THEN <<Head(list)>> \o Keep(Tail(list), wanted)
  ELSE Keep(Tail(list), wanted)

\* dirlist_filter(dirlist) of cgrep5.py
dirlist_filter(dirlist) ==
  IF dirs_to_skip # <<>>
  THEN Keep(dirlist, {x \in Range(dirlist) : ~InList(x, dirs_to_skip)})
  ELSE dirlist

\* filelist_filter(filelist, filepattern) of cgrep5.py
filelist_filter(filelist, glob) ==
  LET outlist == Keep(filelist, {x \in Range(filelist) : FnMatch(x, glob)}) IN
  IF files_to_skip # <<>>
  THEN Keep(outlist, {x \in Range(outlist) :
                        ~\E k \in 1..Len(files_to_skip) : FnMatch(x, files_to_skip[k])})
  ELSE outlist

\* Start-up of cgrep.py, "Pre-process extra skip": one pass of the loop over
\* the -x tokens.  A token whose first character cannot be read, a '/' token
\* that fails the assert, or a regex that does not compile ends the program.
TokenFails(n) ==
  \/ n = <<>>
  \/ (n[1] = "/" /\ n[Len(n)] # "/")
  \/ (n[1] = "/" /\ n[Len(n)] = "/" /\ ~ReCompile(PySlice(n, 1, -1)).ok)

TokenClass(n) ==
  IF n[1] = "." THEN "ext"
  ELSE IF n[1] = "/" THEN "re"
  ELSE "dir"

\* s.split(sep) for a one-character sep
RECURSIVE PySplit(_, _)
PySplit(s, sep) ==
  LET at == {k \in 1..Len(s) : s[k] = sep} IN
  IF at = {} THEN <<s>>
  ELSE LET k0 == CHOOSE k \in at : \A q \in at : k <= q
       IN  <<SubSeq(s, 1, k0 - 1)>> \o PySplit(SubSeq(s, k0 + 1, Len(s)), sep)

NoDecision == [name |-> <<>>, isdir |-> FALSE, skip |-> FALSE]

\* manage_skip_lists() of cgrep5.py (no ignore file exists), as the pair
\* <<_dirs_to_skip, _files_to_skip>> it leaves.
manage_skip_lists(mode, dirs, files) ==
  IF mode = "DISABLED" THEN <<<<>>, files>>
  ELSE IF mode = "OVERRIDE" \/ mode = "DISABLED" THEN <<dirs, <<>>>>
  ELSE <<dirs, files>>

(***************************************************************************)
(* Start-up: how the -x tokens reach the skip lists.                       *)
(***************************************************************************)
\* cgrep.py, "Pre-process extra skip": one pass of the loop.
PreProcessToken ==
  /\ pc = "startup" /\ impl = "cgrep"
  /\ skip_idx <= Len(extra_skip)
  /\ LET n == extra_skip[skip_idx] IN
     IF TokenFails(n)
     THEN /\ pc' = "crashed"
          /\ UNCHANGED <<extra_skip_dir, extra_skip_ext, extra_skip_re, skip_idx>>
     ELSE /\ pc' = pc
          /\ skip_idx' = skip_idx + 1
          /\ extra_skip_ext' =
               IF TokenClass(n) = "ext" THEN Append(extra_skip_ext, n) ELSE extra_skip_ext
          /\ extra_skip_re' =
               IF TokenClass(n) = "re" THEN Append(extra_skip_re, PySlice(n, 1, -1))
               ELSE extra_skip_re
          /\ extra_skip_dir' =
               IF TokenClass(n) = "dir" THEN Append(extra_skip_dir, n) ELSE extra_skip_dir
  /\ UNCHANGED <<impl, out, scanvars, walkvars, tagvars, arg_no_skip,
                 extra_skip, skip_mode, dirs_to_skip, files_to_skip, decision>>

\* cgrep.py: the loop is over, the search starts.
PreProcessDone ==
  /\ pc = "startup" /\ impl = "cgrep"
  /\ skip_idx > Len(extra_skip)
  /\ pc' = "ready"
  /\ UNCHANGED <<impl, out, scanvars, walkvars, tagvars, skipvars>>

\* The pattern of a name search (do_glob), as regex source.
GlobNamePat == <<"c">>

\* What cgrep5.py prints at start-up (_verbosity is 9): the line "XXX: " with
\* the file skip list, and in glob mode the line "Searching for: " with the
\* pattern.
StartUpOutput(files, mode) ==
  <<Printed("xxx", files, 0, <<>>, <<>>, <<>>)>>
    \o (IF mode = "glob" THEN <<Printed("searching", <<GlobNamePat>>, 0, <<>>, <<>>, <<>>)>>
        ELSE <<>>)

\* What the running program has printed when its start-up is over.
AtStart == IF impl = "cgrep5" THEN StartUpOutput(files_to_skip, run_mode) ELSE <<>>

\* cgrep5.py: manage_skip_lists(), then _files_to_skip += _extra_skip.split(":"),
\* then the start-up prints.
ManageSkipLists ==
  /\ pc = "startup" /\ impl = "cgrep5"
  /\ LET lists == manage_skip_lists(skip_mode, dirs_to_skip, files_to_skip) IN
     /\ dirs_to_skip' = lists[1]
     /\ files_to_skip' =
          IF extra_skip # None THEN lists[2] \o PySplit(extra_skip, ":") ELSE lists[2]
  /\ out' = out \o StartUpOutput(files_to_skip', run_mode)
  /\ pc' = "ready"
  /\ UNCHANGED <<impl, scanvars, walkvars, tagvars, arg_no_skip,
                 extra_skip, extra_skip_dir, extra_skip_ext, extra_skip_re, skip_mode,
                 skip_idx, decision>>

\* The skip decision of the running program for one name.
SkipDecision(name, isdir) ==
  IF impl = "cgrep"
  THEN IF isdir THEN should_skip_dir(name)[1] ELSE should_skip_file(name)
  ELSE IF isdir THEN dirlist_filter(<<name>>) = <<>>
       ELSE filelist_filter(<<name>>, <<"*">>) = <<>>

(***************************************************************************)
(* The skip policy on its own: start-up, then decisions on names.          *)
(***************************************************************************)
\* Longest -x argument enumerated.
MaxArgLen == 3
\* Longest probed name enumerated in full.
MaxNameLen == 2

ArgAlphabet == {".", "/", "a", ":"}
NameAlphabet == {".", "a"}

ProbeNames ==
  (TextsUpTo(NameAlphabet, MaxNameLen) \ {<<>>})
    \cup {<<".", "g", "i", "t">>, <<"a", ".", "o">>, <<"a", ".", "a">>}

\* The skip modes cgrep5.py can start in: -X sets OVERRIDE and its argument.
SkipModes(arg) ==
  IF arg = None THEN {"ENABLED", "DISABLED"} ELSE {"ENABLED", "OVERRIDE", "DISABLED"}

\* The -x tokens given on the command line.
Tokens ==
  IF impl = "cgrep" THEN extra_skip
  ELSE IF extra_skip = None THEN <<>> ELSE PySplit(extra_skip, ":")

SkipInit ==
  /\ impl \in Impls
  /\ pc = "startup"
  /\ out = <<>>
  /\ ScanIdle /\ WalkIdle /\ TagIdle
  /\ extra_skip_dir = <<>>
  /\ extra_skip_ext = <<>>
  /\ extra_skip_re = <<>>
  /\ dirs_to_skip = default_dirs_to_skip
  /\ files_to_skip = default_files_to_skip
  /\ skip_idx = 1
  /\ decision = NoDecision
  /\ \E arg \in TextsUpTo(ArgAlphabet, MaxArgLen) \cup {None} :
       extra_skip = IF impl = "cgrep"
                    THEN (IF arg = None THEN <<>> ELSE PySplit(arg, ":"))
                    ELSE arg
  /\ IF impl = "cgrep"
     THEN arg_no_skip \in BOOLEAN /\ skip_mode = "ENABLED"
     ELSE arg_no_skip = FALSE /\ skip_mode \in SkipModes(extra_skip)

Decide ==
  /\ pc = "ready"
  /\ \E name \in ProbeNames, isdir \in BOOLEAN :
       decision' = [name |-> name, isdir |-> isdir, skip |-> SkipDecision(name, isdir)]
  /\ UNCHANGED <<impl, pc, out, scanvars, walkvars, tagvars, arg_no_skip,
                 extra_skip, extra_skip_dir, extra_skip_ext, extra_skip_re, skip_mode,
                 dirs_to_skip, files_to_skip, skip_idx>>

SkipNext == PreProcessToken \/ PreProcessDone \/ ManageSkipLists \/ Decide

SpecSkip == SkipInit /\ [][SkipNext]_vars

\* The three forms of a token.
IsExtToken(n) == n # <<>> /\ n[1] = "."
IsReToken(n) == ~IsExtToken(n) /\ Len(n) >= 2 /\ n[1] = "/" /\ n[Len(n)] = "/"
IsPlainToken(n) == ~IsExtToken(n) /\ ~IsReToken(n)

\* Whether token n, under the rule of its form, excludes name.
TokenExcludes(n, name) ==
  IF IsExtToken(n) THEN SplitExt(name) = n \/ EndsWith(name, n)
  ELSE IF IsReToken(n) THEN ReMatch(ReCompile(PySlice(n, 1, -1)), name)
  ELSE Contains(name, n)

\* Whether the built-in lists of the running program exclude name.
BuiltinExcludes(name, isdir) ==
  IF isdir THEN InList(name, skip_dir)
  ELSE IF impl = "cgrep" THEN InList(SplitExt(name), skip_ext)
  ELSE \E k \in 1..Len(default_files_to_skip) : FnMatch(name, default_files_to_skip[k])

\* C6: every -x token is classified by its form alone under exactly one of
\* three rules ('.' first: extension; wrapped in '/': regex; anything else:
\* plain substring); after start-up it is in exactly one of the three
\* exclusion sets, and a name is excluded on account of a token only under
\* the rule of that token's class.
C6_TokensClassifiedByForm ==
  (pc \in {"ready", "crashed"}) =>
    /\ \A k \in 1..Len(Tokens) :
         LET n == Tokens[k] IN
         /\ IsExtToken(n) =>
              InList(n, extra_skip_ext) /\ ~InList(n, extra_skip_dir)
         /\ IsReToken(n) =>
              /\ InList(PySlice(n, 1, -1), extra_skip_re)
              /\ ~InList(n, extra_skip_dir) /\ ~InList(n, extra_skip_ext)
         /\ IsPlainToken(n) =>
              InList(n, extra_skip_dir) /\ ~InList(n, extra_skip_ext)
    /\ (decision # NoDecision /\ decision.skip) =>
         \/ BuiltinExcludes(decision.name, decision.isdir)
         \/ \E k \in 1..Len(Tokens) : TokenExcludes(Tokens[k], decision.name)

(***************************************************************************)
(* The directory walkers do_grep and do_glob.  os.walk(top-down) yields a  *)
(* directory with the lists of its subdirectories and files, runs the      *)
(* loop body, and then descends into what the body left in dirs.           *)
(*                                                                         *)
(* A path is the sequence of the names below the start directory.  Every   *)
(* directory less than TreeDepth levels down lists the subdirectories      *)
(* `listing`; every directory lists the files `dirfiles`.                  *)
(***************************************************************************)
\* Levels of subdirectories below the start directory.
TreeDepth == 2
\* Most subdirectories one directory lists.
MaxDirs == 2
\* _arg_warn_skip, as cgrep.py defines it
arg_warn_skip == TRUE

D_git == <<".", "g", "i", "t">>
D_svn == <<".", "s", "v", "n">>
D_src == <<"s", "r", "c">>
D_lib == <<"l", "i", "b">>
F_a_c == <<"a", ".", "c">>
F_x_c == <<"x", ".", "c">>
F_b_o == <<"b", ".", "o">>

DirNames == {D_git, D_svn, D_src, D_lib}

\* The file listings of the walks.
FileListings ==
  {<<>>, <<F_a_c>>, <<F_x_c>>, <<F_a_c, F_x_c>>, <<F_x_c, F_a_c>>,
   <<F_b_o, F_a_c>>, <<F_a_c, F_x_c, F_b_o>>}

\* Every list of at most n distinct elements of S.
RECURSIVE ListsOf(_, _)
ListsOf(S, n) ==
  IF n = 0 THEN {<<>>}
  ELSE LET shorter == ListsOf(S, n - 1)
       IN  shorter \cup {Append(l, x) : l \in shorter, x \in S}

DistinctLists(S, n) ==
  {l \in ListsOf(S, n) : \A j, k \in 1..Len(l) : j # k => l[j] # l[k]}

\* What each file holds.
FileContent(name) ==
  IF name = F_a_c THEN <<"b", "a", NL, "b", NL, "a">>
  ELSE IF name = F_x_c THEN <<"a", "b", NL>>
  ELSE <<"a", NL>>

\* The file glob of a content search (do_grep).
FilePattern == <<"*">>

SubDirs(root) == IF Len(root) < TreeDepth THEN listing ELSE <<>>

\* list.remove(x): the list without the first occurrence of x
RemoveFirst(list, x) ==
  LET at == {k \in 1..Len(list) : list[k] = x}
      k0 == CHOOSE k \in at : \A q \in at : k <= q
  IN  SubSeq(list, 1, k0 - 1) \o SubSeq(list, k0 + 1, Len(list))

\* `for name in dirs:` of cgrep.py with dirs.remove(name) in the body: the
\* list iterator keeps its index, so after a removal it moves on by one in
\* the shortened list.  Gives the dirs left and what was printed.
RECURSIVE DirLoop(_, _, _, _, _)
DirLoop(mode, root, dirs, idx, printed) ==
  IF idx > Len(dirs) THEN [dirs |-> dirs, out |-> printed]
  ELSE LET name == dirs[idx]
           fn == Append(root, name)
           sk == should_skip_dir(name)
       IN  IF sk[1]
           THEN DirLoop(mode, root, RemoveFirst(dirs, name), idx + 1,
                        IF sk[2] # None /\ arg_warn_skip
                        THEN Append(printed, Printed("skip", fn, 0, sk[2], <<>>, <<>>))
                        ELSE printed)
           ELSE DirLoop(mode, root, dirs, idx + 1,
                        IF mode = "glob" /\ ReSearch(ReCompile(GlobNamePat), name).found
                        THEN Append(printed, Printed("name", fn, 0, <<>>, <<>>, <<>>))
                        ELSE printed)

\* The subdirectories a walker leaves in dirs, and what it prints on the way.
FilterDirs(mode, root, dirs) ==
  IF impl = "cgrep" THEN DirLoop(mode, root, dirs, 1, <<>>)
  ELSE [dirs |-> dirlist_filter(dirs), out |-> <<>>]

\* The files do_grep hands to grep_file, in order.
GrepCandidates(files) ==
  IF impl = "cgrep"
  THEN Keep(files, {x \in Range(files) : GlobSearch(x, FilePattern) /\ ~should_skip_file(x)})
  ELSE filelist_filter(files, FilePattern)

\* The files do_glob reports, in order.
GlobCandidates(files) ==
  IF impl = "cgrep"
  THEN IF arg_dirsonly THEN <<>>
       ELSE Keep(files, {x \in Range(files) :
                           ReSearch(ReCompile(GlobNamePat), x).found /\ ~should_skip_file(x)})
  ELSE Keep(files, {x \in Range(files) : ReSearch(ReCompile(GlobNamePat), x).found})

\* An error in one file that ends the scan of the directory's other files.
AfterErrorStop(rest) == <<>>

\* `except Exception`: the files the loop goes on with after one file failed.
AfterError(rest) == rest

\* try: grep_file, print; except: diagnostic -- for each candidate in turn.
RECURSIVE GrepFiles(_, _, _)
GrepFiles(root, names, bad) ==
  IF names = <<>> THEN <<>>
  ELSE LET name == Head(names)
           fn == Append(root, name)
       IN  IF name \in bad
           THEN <<Diag(fn)>> \o GrepFiles(root, AfterError(Tail(names)), bad)
           ELSE print_good_lines(impl, fn,
                  grep_file(impl, FileContent(name), ReCompile(textpat), arg_context))
                \o GrepFiles(root, Tail(names), bad)

\* The files grep_file was called on.
RECURSIVE GrepTried(_, _, _)
GrepTried(root, names, bad) ==
  IF names = <<>> THEN <<>>
  ELSE <<Append(root, Head(names))>> \o
       GrepTried(root, IF Head(names) \in bad THEN AfterError(Tail(names)) ELSE Tail(names), bad)

\* What do_glob prints for a file name: cgrep5.py prints it in three parts.
GlobReport(root, name) ==
  LET m == ReSearch(ReCompile(GlobNamePat), name) IN
  IF impl = "cgrep" THEN Printed("name", Append(root, name), 0, <<>>, <<>>, <<>>)
  ELSE Printed("name", Append(root, name), 0,
               PySlice(name, 0, m.start), PySlice(name, m.start, m.end), PyFrom(name, m.end))

\* One pass of the walker's loop body for the directory root, which lists
\* the files `files`; `bad` are the names that cannot be opened.
VisitDir(mode, root, files, bad) ==
  LET d == FilterDirs(mode, root, SubDirs(root))
      cand == IF mode = "grep" THEN GrepCandidates(files) ELSE GlobCandidates(files)
  IN  IF mode = "grep"
      THEN [dirs |-> d.dirs,
            out |-> d.out \o GrepFiles(root, cand, bad),
            tried |-> GrepTried(root, cand, bad)]
      ELSE [dirs |-> d.dirs,
            out |-> d.out \o [k \in 1..Len(cand) |-> GlobReport(root, cand[k])],
            tried |-> [k \in 1..Len(cand) |-> Append(root, cand[k])]]

\* Everything a walker prints for the tree below root.
RECURSIVE WalkTree(_, _, _, _), WalkKids(_, _, _, _, _, _)
WalkTree(mode, root, files, bad) ==
  LET v == VisitDir(mode, root, files, bad)
  IN  v.out \o WalkKids(mode, root, v.dirs, 1, files, bad)
WalkKids(mode, root, dirs, k, files, bad) ==
  IF k > Len(dirs) THEN <<>>
  ELSE WalkTree(mode, Append(root, dirs[k]), files, bad)
       \o WalkKids(mode, root, dirs, k + 1, files, bad)

\* The -x arguments of the walks: none, or one plain token.
WalkArgs == {None, <<"l", "i">>}

WalkInit ==
  /\ impl \in Impls
  /\ pc = "startup"
  /\ out = <<>>
  /\ filedata = <<>> /\ textpat = <<"a">> /\ arg_context = FALSE /\ good_lines = <<>>
  /\ extra_skip_dir = <<>>
  /\ extra_skip_ext = <<>>
  /\ extra_skip_re = <<>>
  /\ dirs_to_skip = default_dirs_to_skip
  /\ files_to_skip = default_files_to_skip
  /\ skip_idx = 1
  /\ decision = NoDecision
  /\ IF impl = "cgrep"
     THEN /\ arg_no_skip \in BOOLEAN
          /\ skip_mode = "ENABLED"
          /\ \E arg \in (IF arg_no_skip THEN {None} ELSE WalkArgs) :
               extra_skip = IF arg = None THEN <<>> ELSE PySplit(arg, ":")
     ELSE /\ arg_no_skip = FALSE
          /\ extra_skip = None
          /\ skip_mode \in SkipModes(extra_skip)
  /\ listing \in DistinctLists(DirNames, MaxDirs)
  /\ dirfiles \in FileListings
  /\ run_mode \in {"grep", "glob"}
  /\ arg_dirsonly \in (IF impl = "cgrep" /\ run_mode = "glob" THEN BOOLEAN ELSE {FALSE})
  /\ unreadable \in (IF run_mode = "grep" /\ F_x_c \in Range(dirfiles)
                     THEN {{}, {F_x_c}} ELSE {{}})
  /\ pending = <<<<>>>>
  /\ visited = <<>>
  /\ scanned = <<>>
  /\ TagIdle

\* os.walk yields the next directory and the loop body of do_grep / do_glob
\* runs on it.
WalkStep ==
  /\ pc = "ready"
  /\ pending # <<>>
  /\ LET root == Head(pending)
         v == VisitDir(run_mode, root, dirfiles, unreadable)
     IN  /\ visited' = Append(visited, root)
         /\ out' = out \o v.out
         /\ scanned' = scanned \o v.tried
         /\ pending' = [k \in 1..Len(v.dirs) |-> Append(root, v.dirs[k])] \o Tail(pending)
  /\ UNCHANGED <<impl, pc, scanvars, skipvars, tagvars, listing, dirfiles, run_mode,
                 arg_dirsonly, unreadable>>

\* os.walk is exhausted: sys.exit(0)
WalkDone ==
  /\ pc = "ready"
  /\ pending = <<>>
  /\ pc' = "done"
  /\ UNCHANGED <<impl, out, scanvars, skipvars, walkvars, tagvars>>

WalkNext == PreProcessToken \/ PreProcessDone \/ ManageSkipLists \/ WalkStep \/ WalkDone

SpecWalk == WalkInit /\ [][WalkNext]_vars

\* Whether the skip policy is in force.
SkippingEnabled == IF impl = "cgrep" THEN ~arg_no_skip ELSE skip_mode # "DISABLED"

\* C1: with skipping enabled, a subdirectory whose name the skip policy says
\* to skip is removed from the pending list before descent: it is never
\* visited and no file beneath it, at any depth, is scanned or reported,
\* whatever the listing order of its siblings.
C1_SkippedDirsNeverVisited ==
  (pc \in {"ready", "done"} /\ SkippingEnabled) =>
    /\ \A j \in 1..Len(pending) : \A k \in 1..Len(pending[j]) :
         ~SkipDecision(pending[j][k], TRUE)
    /\ \A j \in 1..Len(visited) : \A k \in 1..Len(visited[j]) :
         ~SkipDecision(visited[j][k], TRUE)
    /\ \A j \in 1..Len(scanned) : \A k \in 1..(Len(scanned[j]) - 1) :
         ~SkipDecision(scanned[j][k], TRUE)

\* The printed items that are not diagnostics.
RECURSIVE WithoutDiags(_)
WithoutDiags(items) ==
  IF items = <<>> THEN <<>>
  ELSE IF Head(items).kind = "diag" THEN WithoutDiags(Tail(items))
  ELSE <<Head(items)>> \o WithoutDiags(Tail(items))

Count(items, x) == Cardinality({k \in 1..Len(items) : items[k] = x})

\* C7: in grep mode a file that cannot be opened or read is not fatal: it
\* gets one diagnostic naming it and no record, and every other file that
\* passes the filters is scanned and reported in the walk order the tree
\* has without the failing file.
C7_FileErrorNotFatal ==
  (pc = "done" /\ run_mode = "grep") =>
    /\ \A j \in 1..Len(scanned) :
         scanned[j][Len(scanned[j])] \in unreadable =>
           /\ Count(out, Diag(scanned[j])) = 1
           /\ Count(out, Header(scanned[j])) = 0
    /\ WithoutDiags(out) =
         AtStart \o WalkTree("grep", <<>>, Keep(dirfiles, Range(dirfiles) \ unreadable), {})

\* A walk in which a file failed, with files reported before it and after it.
C7_Witness ==
  /\ pc = "done" /\ run_mode = "grep"
  /\ \E i, j, k \in 1..Len(out) :
       /\ i < j /\ j < k
       /\ out[i].kind = "file" /\ out[j].kind = "diag" /\ out[k].kind = "file"
       /\ out[k].fn[1] = out[j].fn[1]
       /\ Len(out[j].fn) = 2 /\ Len(out[k].fn) = 2

(***************************************************************************)
(* The scanner on its own: one file, one pattern.                          *)
(***************************************************************************)
\* Longest file content enumerated in full.
MaxFileLen == 5
\* How far past _max_line_part the long lines reach.
MaxOver == 1

ScanAlphabet == {"a", "b", NL}

LongLens == (max_line_part - 1)..(max_line_part + MaxOver)

\* One long line: a run of 'a', a 'b', a run of 'a', with or without newline.
LongData ==
  {Rep("a", p) \o <<"b">> \o Rep("a", s) \o tail :
     p \in LongLens, s \in LongLens, tail \in {<<>>, <<NL>>}}

ScanData == TextsUpTo(ScanAlphabet, MaxFileLen) \cup LongData

ScanPatterns == {<<"a">>, <<"b">>, <<"a", "b">>, <<"$">>, <<"^", "b">>, <<"a", "$">>}

ScanName == <<<<"f">>>>

\* The skip lists as the programs define them, no -x token given.
SkipDefaults ==
  /\ arg_no_skip = FALSE
  /\ extra_skip = (IF impl = "cgrep5" THEN None ELSE <<>>)
  /\ skip_idx = 1
  /\ decision = NoDecision
  /\ extra_skip_dir = <<>>
  /\ extra_skip_ext = <<>>
  /\ extra_skip_re = <<>>
  /\ skip_mode = "ENABLED"
  /\ dirs_to_skip = default_dirs_to_skip
  /\ files_to_skip = default_files_to_skip

ScanInit ==
  /\ impl \in Impls
  /\ pc = "scan"
  /\ filedata \in ScanData
  /\ textpat \in ScanPatterns
  /\ arg_context \in BOOLEAN   \* -u of cgrep.py; the global _show_context of cgrep5.py
  /\ good_lines = <<>>
  /\ SkipDefaults
  /\ WalkIdle
  /\ TagIdle
  /\ out = AtStart

\* good_lines = grep_file(fn, textpattern)
ScanFile ==
  /\ pc = "scan"
  /\ good_lines' = grep_file(impl, filedata, ReCompile(textpat), arg_context)
  /\ pc' = "print"
  /\ UNCHANGED <<impl, filedata, textpat, arg_context, out, skipvars, walkvars, tagvars>>

\* the header and print_good_line for each record
PrintFile ==
  /\ pc = "print"
  /\ out' = out \o print_good_lines(impl, ScanName, good_lines)
  /\ pc' = "done"
  /\ UNCHANGED <<impl, scanvars, skipvars, walkvars, tagvars>>

ScanNext == ScanFile \/ PrintFile

SpecScan == ScanInit /\ [][ScanNext]_vars

\* The 1-based numbers of the lines of data on which re matches somewhere.
LineMatches(re, ln) == \E p \in 0..Len(ln) : ReMatchAt(re.atoms, 1, ln, p) >= 0
MatchingLines(data, re) ==
  {k \in 1..Len(Lines(data)) : LineMatches(re, Lines(data)[k])}

\* C2: with context disabled grep_file returns one record per matching
\* line and none for the others, in file order, with strictly increasing
\* line numbers, each the 1-based index of its matching line.
C2_OneRecordPerMatchingLine ==
  (pc # "scan" /\ ~arg_context) =>
    LET hits == MatchingLines(filedata, ReCompile(textpat)) IN
    /\ Len(good_lines) = Cardinality(hits)
    /\ \A j \in 1..Len(good_lines) : good_lines[j][1] \in hits
    /\ \A j \in 1..(Len(good_lines) - 1) : good_lines[j][1] < good_lines[j + 1][1]

\* A file with two matching lines and a line in between that does not match.
C2_Witness ==
  /\ pc = "done" /\ ~arg_context
  /\ Len(good_lines) = 2
  /\ good_lines[1][1] = 1 /\ good_lines[2][1] = 3

\* Whether every element of xs occurs in ys, in the same order.
RECURSIVE IsSubsequence(_, _)
IsSubsequence(xs, ys) ==
  IF xs = <<>> THEN TRUE
  ELSE IF ys = <<>> THEN FALSE
  ELSE IF Head(xs) = Head(ys) THEN IsSubsequence(Tail(xs), Tail(ys))
  ELSE IsSubsequence(xs, Tail(ys))

\* C3: enabling context only adds records: the match records returned with
\* context enabled are exactly those returned with context disabled (a line
\* that matches is still reported when the line before it matches too), and
\* at most two context records are added per match.
C3_ContextOnlyAddsRecords ==
  (pc # "scan" /\ arg_context) =>
    LET plain == grep_file(impl, filedata, ReCompile(textpat), FALSE) IN
    /\ IsSubsequence(plain, good_lines)
    /\ Len(good_lines) <= 3 * Len(plain)

\* The text a prefix and a suffix are to be shown as under the cap of 40.
ShownPrefix(a) ==
  IF Len(a) <= max_line_part THEN a
  ELSE Ellipsis \o SubSeq(a, Len(a) - max_line_part + 1, Len(a))
ShownSuffix(c) ==
  IF Len(c) <= max_line_part THEN c
  ELSE SubSeq(c, 1, max_line_part) \o Ellipsis

\* The k-th smallest element of a set of numbers.
RECURSIVE KthSmallest(_, _)
KthSmallest(S, k) ==
  LET lo == CHOOSE x \in S : \A y \in S : x <= y
  IN  IF k = 1 THEN lo ELSE KthSmallest(S \ {lo}, k - 1)

\* C5: every rendered match record shows a prefix longer than 40 characters
\* as "..." and its last 40 characters, a suffix longer than 40 as its first
\* 40 characters and "...", shorter ones unchanged, and the matched span in
\* full; cgrep.py (truncating in grep_file) and cgrep5.py (truncating in
\* print_good_lines) so render the same text.
C5_TruncationRendered ==
  (pc = "done" /\ ~arg_context) =>
    LET re == ReCompile(textpat)
        hits == MatchingLines(filedata, re)
        shown == SubSeq(out, Len(AtStart) + 1, Len(out))
    IN  /\ Len(shown) = (IF hits = {} THEN 0 ELSE Cardinality(hits) + 1)
        /\ \A j \in 1..Cardinality(hits) :
             LET k == KthSmallest(hits, j)
                 ln == Lines(filedata)[k]
                 parts == MatchParts(ln, ReSearch(re, ln))
             IN  shown[j + 1] = Printed("line", <<>>, k, ShownPrefix(parts[1]),
                                      parts[2], ShownSuffix(parts[3]))

(***************************************************************************)
(* Tag mode of cgrep.py: parse_tag_line and do_ctags.                      *)
(***************************************************************************)
TAB == "\t"

\* The characters of the model in the order of their codes.
CharOrder ==
  <<"\t", "\n", " ", "!", "\"", "$", "(", ")", ".", "/", "0", "1", "2", "3",
    "4", "5", "6", "7", "8", "9", ":", ";", "?", "\\", "^", "a", "c", "d",
    "f", "g", "h", "i", "m", "n", "o", "p", "t", "v", "x">>

Ord(ch) == CHOOSE k \in 1..Len(CharOrder) : CharOrder[k] = ch

\* a < b for two str values
StrLess(a, b) ==
  \E k \in 1..Len(b) :
    /\ \A j \in 1..(k - 1) : j <= Len(a) /\ a[j] = b[j]
    /\ k > Len(a) \/ Ord(a[k]) < Ord(b[k])

\* sorted(keys)
RECURSIVE Sorted(_)
Sorted(keys) ==
  IF keys = {} THEN <<>>
  ELSE LET lo == CHOOSE k \in keys : \A q \in keys \ {k} : StrLess(k, q)
       IN  <<lo>> \o Sorted(keys \ {lo})

\* s.split(sep, maxsplit)
RECURSIVE PySplitMax(_, _, _)
PySplitMax(s, sep, maxsplit) ==
  LET at == {k \in 1..Len(s) : s[k] = sep} IN
  IF at = {} \/ maxsplit = 0 THEN <<s>>
  ELSE LET k0 == CHOOSE k \in at : \A q \in at : k <= q
       IN  <<SubSeq(s, 1, k0 - 1)>>
             \o PySplitMax(SubSeq(s, k0 + 1, Len(s)), sep, maxsplit - 1)

\* s.replace("(", "\\(") followed by s.replace(")", "\\)")
RECURSIVE EscapeParens(_)
EscapeParens(s) ==
  IF s = <<>> THEN <<>>
  ELSE (IF Head(s) \in {"(", ")"} THEN <<"\\", Head(s)>> ELSE <<Head(s)>>)
         \o EscapeParens(Tail(s))

\* tagpattern[1:-3] if tagpattern.endswith(';"') else tagpattern[1:-1]
StripDelimiters(tagpattern) ==
  IF EndsWith(tagpattern, <<";", "\"">>) THEN PySlice(tagpattern, 1, -3)
  ELSE PySlice(tagpattern, 1, -1)

\* The argument parse_tag_line hands to re.compile.
CompiledSlice(tagpattern) == PySlice(tagpattern, 1, -3)

\* parse_tag_line(p_ln, p_scope, p_ident_re).  status is "ok" for a triple,
\* "none" for (None, None, None) without output, "badre" for (None, None,
\* None) after the "CTAGS re format error" message, and "raise" when the
\* function ends with an exception that is not an IOError.
TagResult(status, tagname, srcfile, re_src) ==
  [status |-> status, tagname |-> tagname, srcfile |-> srcfile, re_src |-> re_src]

parse_tag_line(p_ln, p_scope, p_ident_re) ==
  IF StartsWith(p_ln, <<"!">>) THEN TagResult("none", <<>>, <<>>, <<>>)
  ELSE LET parts == PySplitMax(p_ln, TAB, 3) IN
       IF Len(parts) # 4 THEN TagResult("raise", <<>>, <<>>, <<>>)
       ELSE LET tagname == parts[1]
                srcfile == parts[2]
                scope   == parts[4]
                escaped == EscapeParens(StripDelimiters(parts[3]))
                re_src  == CompiledSlice(escaped)
            IN  IF scope = <<>> THEN TagResult("raise", <<>>, <<>>, <<>>)
                ELSE IF <<scope[1]>> # p_scope THEN TagResult("none", <<>>, <<>>, <<>>)
                ELSE IF ~ReMatch(p_ident_re, tagname)
                     THEN TagResult("none", <<>>, <<>>, <<>>)
                ELSE IF ~ReCompile(re_src).ok
                     THEN TagResult("badre", <<>>, <<>>, escaped)
                ELSE TagResult("ok", tagname, srcfile, re_src)

\* The digits of a natural number.
RECURSIVE Digits(_)
Digits(n) ==
  LET d == <<CharOrder[Ord("0") + (n % 10)]>> IN
  IF n < 10 THEN d ELSE Digits(n \div 10) \o d

\* "%04d" % n
Pad4(n) == LET d == Digits(n) IN Rep("0", Max(0, 4 - Len(d))) \o d

\* "%s:%04d" % (srcfile, int(n))
FoundKey(srcfile, n) == srcfile \o <<":">> \o Pad4(n)

\* found_lines after do_ctags has stored the records of one source file.
RECURSIVE StoreFound(_, _, _, _)
StoreFound(found, srcfile, recs, k) ==
  IF k > Len(recs) THEN found
  ELSE LET key == FoundKey(srcfile, recs[k][1])
           upd == [q \in DOMAIN found \cup {key} |->
                     IF q = key THEN recs[k] ELSE found[q]]
       IN  StoreFound(upd, srcfile, recs, k + 1)

\* The second loop of do_ctags over the sorted keys.
RECURSIVE EmitFound(_, _, _, _)
EmitFound(found, keys, k, kept_fn) ==
  IF k > Len(keys) THEN <<>>
  ELSE LET fn == PySplit(keys[k], ":")[1] IN
       (IF fn # kept_fn THEN <<Header(fn)>> ELSE <<>>)
         \o <<print_good_line("cgrep", found[keys[k]])>>
         \o EmitFound(found, keys, k + 1, fn)

\* The query f:main of the command line, split at the colon.
tag_scope == <<"f">>
tag_ident == <<"m", "a", "i", "n">>

\* The source files the tag file may name, and their content.
SrcMainC == <<"m", "a", "i", "n", ".", "c">>
SrcMainCIn == <<"m", "a", "i", "n", ".", "c", ".", "i", "n">>
SrcFiles == {SrcMainC, SrcMainCIn}
SrcContent(name) ==
  IF name = SrcMainC THEN <<"i", "n", "t", " ", "m", "a", "i", "n", "(", "v", "o", "i", "d", ")", "\n">> \o <<"m", "a", "i", "n", "(", ")", "\n">>
  ELSE <<"i", "n", "t", " ", "m", "a", "i", "n", "(", "v", "o", "i", "d", ")", "\n">>

\* do_ctags: one pass of the loop over the tag file.  An exception that is
\* not an IOError leaves the program with a traceback; an IOError of
\* grep_file's open() reaches the handler around do_ctags, which prints
\* "Unable to open tagfile" and ends the run.
TagLine ==
  /\ pc = "tags" /\ impl = "cgrep"
  /\ tag_idx <= Len(tagfile)
  /\ LET r == parse_tag_line(tagfile[tag_idx], tag_scope, ReCompile(tag_ident)) IN
     CASE r.status = "raise" ->
            /\ pc' = "crashed"
            /\ UNCHANGED <<out, tag_idx, found_lines, probes>>
       [] r.status = "none" ->
            /\ tag_idx' = tag_idx + 1
            /\ UNCHANGED <<pc, out, found_lines, probes>>
       [] r.status = "badre" ->
            /\ tag_idx' = tag_idx + 1
            /\ out' = Append(out, Diag(r.re_src))
            /\ UNCHANGED <<pc, found_lines, probes>>
       [] OTHER ->
            /\ probes' = Append(probes, [line |-> tag_idx, srcfile |-> r.srcfile,
                                         re_src |-> r.re_src])
            /\ IF r.srcfile \in missing \/ r.srcfile \notin SrcFiles
               THEN /\ pc' = "ioerror"
                    /\ out' = Append(out, Diag(r.srcfile))
                    /\ UNCHANGED <<tag_idx, found_lines>>
               ELSE /\ found_lines' =
                         StoreFound(found_lines, r.srcfile,
                                    grep_file("cgrep", SrcContent(r.srcfile),
                                              ReCompile(r.re_src), arg_context), 1)
                    /\ tag_idx' = tag_idx + 1
                    /\ UNCHANGED <<pc, out>>
  /\ UNCHANGED <<impl, scanvars, skipvars, walkvars, tagfile, missing>>

\* do_ctags: the loop over sorted(found_lines.keys()).
TagEmit ==
  /\ pc = "tags" /\ impl = "cgrep"
  /\ tag_idx > Len(tagfile)
  /\ out' = out \o EmitFound(found_lines, Sorted(DOMAIN found_lines), 1, None)
  /\ pc' = "done"
  /\ UNCHANGED <<impl, scanvars, skipvars, walkvars, tagvars>>

MaxTagLines == 2

\* The fields of a tag line joined by tabs, with the newline of the file.
TagText(tagname, srcfile, excmd, scope) ==
  tagname \o <<TAB>> \o srcfile \o <<TAB>> \o excmd \o <<TAB>> \o scope \o <<NL>>

TagNames == {<<"m", "a", "i", "n">>, <<"g">>}
TagScopes == {<<"f">>, <<"p">>}
ExCommands ==
  { <<"/", "^", "i", "n", "t", " ", "m", "a", "i", "n", "(", "v", "o", "i", "d", ")", "$", "/", ";", "\"">>,
    <<"/", "^", "i", "n", "t", " ", "m", "a", "i", "n", "(", "v", "o", "i", "d", ")", "$", "/">>,
    <<"/", "^", "m", "a", "i", "n", "(", "a", "$", "/", ";", "\"">>,
    <<"/", "^", "m", "a", "i", "n", "(", ")", "$", "/", ";", "\"">> }

WellFormedTagLines ==
  {TagText(t, f, e, sc) : t \in TagNames, f \in SrcFiles, e \in ExCommands,
                          sc \in TagScopes}

\* A comment line and a line with two fields only.
CommentTagLine == <<"!", "c", "\n">>
ShortTagLine == <<"m", "a", "i", "n", "\t", "m", "a", "i", "n", ".", "c", "\n">>

TagLines == WellFormedTagLines \cup {CommentTagLine, ShortTagLine}

TagInit ==
  /\ impl = "cgrep"
  /\ pc = "tags"
  /\ out = <<>>
  /\ ScanIdle /\ WalkIdle /\ SkipDefaults
  /\ \E n \in 0..MaxTagLines : tagfile \in [1..n -> TagLines]
  /\ tag_idx = 1
  /\ found_lines = <<>>
  /\ missing \in SUBSET SrcFiles
  /\ probes = <<>>

TagNext == TagLine \/ TagEmit

SpecTags == TagInit /\ [][TagNext]_vars

(***************************************************************************)
(* Properties of tag mode.                                                 *)
(***************************************************************************)
TagTerminal == pc \in {"done", "crashed", "ioerror"}

\* What parse_tag_line makes of line k of the tag file.
ParseOf(k) == parse_tag_line(tagfile[k], tag_scope, ReCompile(tag_ident))

\* Line k has fewer than four tab-separated fields.
FewFields(k) ==
  /\ ~StartsWith(tagfile[k], <<"!">>)
  /\ Cardinality({j \in 1..Len(tagfile[k]) : tagfile[k][j] = TAB}) < 3

MalformedLines ==
  {k \in 1..Len(tagfile) : FewFields(k) \/ ParseOf(k).status = "badre"}

AcceptedLines == {k \in 1..Len(tagfile) : ParseOf(k).status = "ok"}

Readable(f) == f \in SrcFiles \ missing

\* The (file, line) pairs the accepted entries ks resolve to.
ResolvedPairs(ks) ==
  UNION { LET r == ParseOf(k)
              recs == grep_file("cgrep", SrcContent(r.srcfile),
                                ReCompile(r.re_src), arg_context)
          IN  {<<r.srcfile, recs[j][1]>> : j \in 1..Len(recs)}
          : k \in ks }

\* The (file, line) pairs of the emitted records, each under the header
\* printed last before it.
EmittedPairs ==
  { LET hs == {h \in 1..j : out[h].kind = "file"}
        h0 == CHOOSE h \in hs : \A q \in hs : q <= h
    IN  <<out[h0].fn, out[j].n>>
    : j \in {i \in 1..Len(out) : out[i].kind = "line"} }

DiagCount == Cardinality({j \in 1..Len(out) : out[j].kind = "diag"})

RECURSIVE SortedNums(_)
SortedNums(ns) ==
  IF ns = {} THEN <<>>
  ELSE LET lo == CHOOSE n \in ns : \A q \in ns : n <= q
       IN  <<lo>> \o SortedNums(ns \ {lo})

\* Headers and line numbers in the order (file, line), each pair once.
RECURSIVE Canonical(_, _, _)
Canonical(pairs, files, k) ==
  IF k > Len(files) THEN <<>>
  ELSE LET ns == SortedNums({pr[2] : pr \in {q \in pairs : q[1] = files[k]}})
       IN  <<<<"file", files[k]>>>> \o [j \in 1..Len(ns) |-> <<"line", ns[j]>>]
             \o Canonical(pairs, files, k + 1)

Outline(items) ==
  LET kept == WithoutDiags(items) IN
  [j \in 1..Len(kept) |->
     IF kept[j].kind = "file" THEN <<"file", kept[j].fn>> ELSE <<"line", kept[j].n>>]

\* C4: when do_ctags has emitted its results, the output is, file by file in
\* ascending order of the file names, the file's header once and then its
\* records by ascending line number, every (file, line) pair once.
C4_TagResultsOrdered ==
  (pc = "done" /\ tag_idx > Len(tagfile)) =>
    LET pairs == ResolvedPairs(AcceptedLines) IN
    Outline(out) = Canonical(pairs, Sorted({pr[1] : pr \in pairs}), 1)

\* C8: a run over a tag file with a malformed line (and no unreadable source
\* file) ends normally with one diagnostic per malformed line, every line
\* parsed, and the results of all well-formed entries emitted.
C8_MalformedTagLineNotFatal ==
  (/\ TagTerminal
   /\ MalformedLines # {}
   /\ \A k \in AcceptedLines : Readable(ParseOf(k).srcfile)) =>
    /\ pc = "done"
    /\ tag_idx > Len(tagfile)
    /\ DiagCount = Cardinality(MalformedLines)
    /\ EmittedPairs = ResolvedPairs(AcceptedLines)

\* C9: a run over a well-formed tag file with an accepted entry whose source
\* file cannot be opened ends with a diagnostic naming that file and with the
\* results of all the other accepted entries emitted.
C9_UnreadableSourceNotFatal ==
  LET failing == {k \in AcceptedLines : ~Readable(ParseOf(k).srcfile)} IN
  (/\ TagTerminal
   /\ \A k \in 1..Len(tagfile) : ~FewFields(k)
   /\ failing # {}) =>
    /\ \A k \in failing : Diag(ParseOf(k).srcfile) \in Range(out)
    /\ EmittedPairs = ResolvedPairs(AcceptedLines \ failing)

\* C10: every source file scan made for an accepted entry uses the pattern of
\* the entry's excommand with its delimiters and marker stripped once and its
\* parentheses escaped, and nothing else removed.
C10_TagPatternCompiledWhole ==
  \A j \in 1..Len(probes) :
    LET parts == PySplitMax(tagfile[probes[j].line], TAB, 3) IN
    /\ probes[j].srcfile = parts[2]
    /\ probes[j].re_src = EscapeParens(StripDelimiters(parts[3]))

(***************************************************************************)
(* Properties of the skip-disabled mode (-S).                              *)
(***************************************************************************)
SkipDisabled == IF impl = "cgrep" THEN arg_no_skip ELSE skip_mode = "DISABLED"

\* C11: with skipping disabled (-S) nothing is excluded: after start-up no
\* skip decision is true for any directory or file name, and in cgrep5.py
\* both the directory skip list and the file skip list are empty after
\* manage_skip_lists (before the -x tokens are appended).
C11_NoSkipExcludesNothing ==
  (pc = "ready" /\ SkipDisabled) =>
    /\ decision # NoDecision => ~decision.skip
    /\ impl = "cgrep5" =>
         /\ dirs_to_skip = <<>>
         /\ manage_skip_lists(skip_mode, default_dirs_to_skip, default_files_to_skip)[2] = <<>>

(***************************************************************************)
(* Properties of context mode and of the split of a matching line.         *)
(***************************************************************************)
\* A text without its trailing line terminator.
Chomp(t) == IF t # <<>> /\ t[Len(t)] = NL THEN SubSeq(t, 1, Len(t) - 1) ELSE t

\* A record with the terminator of its first text left out of account.
Chomped(rec) == <<rec[1], Chomp(rec[2]), rec[3], rec[4]>>

\* For every matching physical line k from line k0 on, in order: the line
\* before it (if k > 1) under number k-1, the match under number k, the line
\* after it (or the empty text) under number k+1.
RECURSIVE ContextRecords(_, _, _, _)
ContextRecords(im, lines, re, k) ==
  IF k > Len(lines) THEN <<>>
  ELSE LET m == ReSearch(re, lines[k])
           before == IF k > 1 THEN <<<<k - 1, Chomp(lines[k - 1]), <<>>, <<>>>>>> ELSE <<>>
           after == <<k + 1, IF k < Len(lines) THEN Chomp(lines[k + 1]) ELSE <<>>,
                      <<>>, <<>>>>
       IN  (IF m.found
            THEN before \o <<Chomped(MatchRecord(im, k, lines[k], m))>> \o <<after>>
            ELSE <<>>)
           \o ContextRecords(im, lines, re, k + 1)

\* C12: with context enabled grep_file returns, for every match on physical
\* line k and in file order, the context-before record (only if k > 1) with
\* number k-1 and the text of line k-1, the match record with number k, and
\* the context-after record with number k+1 and the text of line k+1 (empty
\* after the last line); every line number is positive.
C12_ContextRecordsPerMatch ==
  (pc # "scan" /\ arg_context) =>
    /\ [j \in 1..Len(good_lines) |-> Chomped(good_lines[j])]
         = ContextRecords(impl, Lines(filedata), ReCompile(textpat), 1)
    /\ \A j \in 1..Len(good_lines) : good_lines[j][1] >= 1

\* C13: every match record of a line on which truncation does not act holds
\* the whole line: prefix, matched span of the leftmost match and suffix,
\* joined, are the line without its trailing line terminator, also for a
\* last line that has no terminator.
C13_SplitKeepsWholeLine ==
  (pc # "scan" /\ ~arg_context) =>
    \A j \in 1..Len(good_lines) :
      LET rec == good_lines[j]
          ln == Lines(filedata)[rec[1]]
          m == ReSearch(ReCompile(textpat), ln)
      IN  Len(ln) <= max_line_part =>
            /\ rec[3] = SubSeq(ln, m.start + 1, m.end)
            /\ rec[2] \o rec[3] \o rec[4] = Chomp(ln)

====
